---- MODULE Spec2Model ----
(***************************************************************************)
(* Daily Dewey API: the GET /daily handler of app.py over the read-only    *)
(* classification table queried through ddc_helpers.DDCDatabase.           *)
(*                                                                         *)
(* Strings are sequences of one-character strings.  A value that can be    *)
(* either a Python/SQLite int or a str is a record [t, n, s].              *)
(***************************************************************************)
EXTENDS Integers, Sequences, FiniteSets, TLC

VARIABLES
    store,          \* rows of full_classification (read-only)
    affinity,       \* column affinity of full_classification.section_code
    now,            \* the UTC clock, in ticks since 00:00 of the first day
    pc,             \* position of the handler: idle, select, build, headers, done
    rawHint,        \* the hint query parameter as received
    hint,           \* the validated hint
    lookupKey,      \* argument of the last ddc_db.get_section call (NoKey if none)
    selDay,         \* the date get_daily_section read from the clock
    path,           \* how the section was resolved: none, primary, fallback
    row,            \* the store row the section was built from
    section_data,   \* return value of get_daily_section
    result,         \* JSON body under construction / returned
    headers,        \* response headers set by the handler
    status,         \* HTTP status of the finished response (0 while in flight)
    lookups,        \* number of store queries made for the current request
    dateDay,        \* the date read from the clock for the date field
    reqTime,        \* the clock value read for the cache headers
    prev            \* summary of the previously completed request

vars == <<store, affinity, now, pc, rawHint, hint, lookupKey, selDay, path,
          row, section_data, result, headers, status, lookups, dateDay,
          reqTime, prev>>

----------------------------------------------------------------------------
(* Bounds *)

MaxDay == 1             \* the clock runs over days 0..MaxDay
TicksPerSec == 2        \* clock resolution (sub-second instants per second)

SecondsPerDay == 86400
DayTicks == SecondsPerDay * TicksPerSec

----------------------------------------------------------------------------
(* Values and strings *)

I(n) == [t |-> "int", n |-> n, s |-> <<>>]
S(s) == [t |-> "str", n |-> 0, s |-> s]

Digits == <<"0", "1", "2", "3", "4", "5", "6", "7", "8", "9">>

RECURSIVE IntStr(_)
IntStr(n) == IF n < 0 THEN <<"-">> \o IntStr(-n)
             ELSE IF n < 10 THEN <<Digits[n + 1]>>
             ELSE IntStr(n \div 10) \o <<Digits[(n % 10) + 1]>>

\* str(x) for an int or a str
Str(v) == IF v.t = "int" THEN IntStr(v.n) ELSE v.s

RECURSIVE Zeros(_)
Zeros(k) == IF k <= 0 THEN <<>> ELSE <<"0">> \o Zeros(k - 1)

\* str.zfill(width): pad on the left with "0", after a leading sign
ZFill(s, width) ==
    IF Len(s) >= width THEN s
    ELSE IF Len(s) > 0 /\ s[1] \in {"+", "-"}
         THEN <<s[1]>> \o Zeros(width - Len(s)) \o Tail(s)
         ELSE Zeros(width - Len(s)) \o s

HexDigits == <<"0", "1", "2", "3", "4", "5", "6", "7", "8", "9",
               "a", "b", "c", "d", "e", "f">>

HexVal(c) == (CHOOSE i \in 1..16 : HexDigits[i] = c) - 1

\* int(s, 16) % m, reduced digit by digit (a Python int is unbounded, the
\* integers of the model checker are 32 bits wide)
RECURSIVE ParseHexMod(_, _)
ParseHexMod(s, m) ==
    IF Len(s) = 0 THEN 0
    ELSE (16 * ParseHexMod(SubSeq(s, 1, Len(s) - 1), m) + HexVal(s[Len(s)])) % m

IsDigitStr(s) == Len(s) > 0 /\ \A i \in 1..Len(s) : s[i] \in {Digits[k] : k \in 1..10}

\* value of a string of decimal digits
RECURSIVE ParseDec(_)
ParseDec(s) == IF Len(s) = 0 THEN 0
               ELSE 10 * ParseDec(SubSeq(s, 1, Len(s) - 1))
                    + ((CHOOSE i \in 1..10 : Digits[i] = s[Len(s)]) - 1)

----------------------------------------------------------------------------
(* Dates: a date is a day number counted from Epoch; all days of the model *)
(* lie in the month of Epoch.                                              *)

Epoch == [y |-> 2026, m |-> 2, d |-> 6, weekday |-> 4]

\* datetime.date()
DateOf(t) == t \div DayTicks

\* date.isoformat()
IsoFormat(day) ==
    ZFill(IntStr(Epoch.y), 4) \o <<"-">> \o ZFill(IntStr(Epoch.m), 2)
        \o <<"-">> \o ZFill(IntStr(Epoch.d + day), 2)

\* hashlib.md5(date_str.encode()).hexdigest()[:8], tabulated for the dates
\* of the model
Md5Hex8(date_str) ==
    CASE date_str = <<"2","0","2","6","-","0","2","-","0","6">> -> <<"4","f","4","6","7","2","e","c">>
      [] date_str = <<"2","0","2","6","-","0","2","-","0","7">> -> <<"c","5","c","0","4","d","d","f">>
      [] date_str = <<"2","0","2","6","-","0","2","-","0","8">> -> <<"0","e","2","8","a","6","3","7">>
      [] date_str = <<"2","0","2","6","-","0","2","-","0","9">> -> <<"e","9","5","f","3","9","d","6">>
      [] date_str = <<"2","0","2","6","-","0","2","-","1","0">> -> <<"e","7","1","3","2","3","2","b">>
      [] date_str = <<"2","0","2","6","-","0","2","-","1","1">> -> <<"3","1","7","4","5","b","2","5">>

\* int(hash_hex[:8], 16) % 1000 for the date
DailyCode(day) == ParseHexMod(Md5Hex8(IsoFormat(day)), 1000)

----------------------------------------------------------------------------
(* The store: table full_classification behind DDCDatabase *)

Lower == <<"a","b","c","d","e","f","g","h","i","j","k","l","m","n","o","p","q","r","s","t","u","v","w","x","y","z">>
Upper == <<"A","B","C","D","E","F","G","H","I","J","K","L","M","N","O","P","Q","R","S","T","U","V","W","X","Y","Z">>

AsciiLetters == {Lower[i] : i \in 1..26} \cup {Upper[i] : i \in 1..26}

\* section codes of the rows a store of the model may hold
CandidateCodes == {4, 7, 399}

SectionDesc(n) ==
    CASE n = 4   -> <<"D","a","t","a",","," ","2","n","d"," ","é","_","Z",".">>
      [] n = 399 -> <<"C","u","s","t","o","m","s"," ","o","f"," ","w","a","r">>
      [] OTHER   -> <<"[","U","n","a","s","s","i","g","n","e","d","]">>

DivisionDesc(n) ==
    IF n = 390 THEN <<"C","u","s","t","o","m","s"," ","&"," ","f","o","l","k","l","o","r","e">>
    ELSE <<"C","o","m","p","u","t","e","r"," ","s","c","i","e","n","c","e">>

MainClassDesc(n) ==
    IF n = 300 THEN <<"S","o","c","i","a","l"," ","s","c","i","e","n","c","e","s">>
    ELSE <<"G","e","n","e","r","a","l"," ","w","o","r","k","s">>

\* how a code is held in the table: as an integer, as its decimal text, or
\* as zero-padded text
StorageStyles == {"int", "text", "padded"}

Stored(n, style) ==
    CASE style = "int"    -> I(n)
      [] style = "text"   -> S(IntStr(n))
      [] style = "padded" -> S(ZFill(IntStr(n), 3))

\* the row of section n: a section's division is its first two digits
\* followed by 0, its main class its first digit followed by 00
Row(n, style) ==
    [section_code           |-> Stored(n, style),
     section_description    |-> SectionDesc(n),
     division_code          |-> Stored((n \div 10) * 10, style),
     division_description   |-> DivisionDesc((n \div 10) * 10),
     main_class_code        |-> Stored((n \div 100) * 100, style),
     main_class_description |-> MainClassDesc((n \div 100) * 100)]

\* SQLite "section_code = ?" with a TEXT parameter: a column of INTEGER
\* affinity converts a parameter that looks like an integer to that integer,
\* a column of TEXT affinity compares the texts
SqlEq(stored, key, aff) ==
    IF aff = "INTEGER"
    THEN stored.t = "int" /\ IsDigitStr(key) /\ stored.n = ParseDec(key)
    ELSE stored.t = "str" /\ stored.s = key

\* DDCDatabase.get_section: the rows fetchone() may return ({} for None)
get_section(code) == {r \in store : SqlEq(r.section_code, code, affinity)}

LowerChar(c) == IF \E i \in 1..26 : Upper[i] = c
                THEN Lower[CHOOSE i \in 1..26 : Upper[i] = c]
                ELSE c

\* text LIKE '%pat%' (case-insensitive for ASCII letters)
Like(text, pat) ==
    \E i \in 1..(Len(text) - Len(pat) + 1) :
        \A j \in 1..Len(pat) : LowerChar(text[i + j - 1]) = LowerChar(pat[j])

Unassigned == <<"[","U","n","a","s","s","i","g","n","e","d","]">>

\* DDCDatabase.get_random_section: the rows ORDER BY RANDOM() LIMIT 1 may
\* return ({} for None)
get_random_section(exclude_unassigned) ==
    IF exclude_unassigned
    THEN {r \in store : ~Like(r.section_description, Unassigned)}
    ELSE store

----------------------------------------------------------------------------
(* app.py *)

\* variant: only lower-case letters masked
RECURSIVE mask_lowercase(_)
mask_lowercase(text) ==
    IF Len(text) = 0 THEN <<>>
    ELSE <<IF Head(text) \in {Lower[i] : i \in 1..26} THEN "_" ELSE Head(text)>>
         \o mask_lowercase(Tail(text))

\* re.sub(r"[a-zA-Z]", "_", text)
RECURSIVE mask_letters(_)
mask_letters(text) ==
    IF Len(text) = 0 THEN <<>>
    ELSE <<IF Head(text) \in AsciiLetters THEN "_" ELSE Head(text)>>
         \o mask_letters(Tail(text))

\* Query(0, ge=0, le=4)
HintDefault == 0
HintMin == 0
HintMax == 4

\* the hint parameter of a request: absent, an integer, or not an integer
RawHints ==
    {[kind |-> "absent", n |-> 0], [kind |-> "other", n |-> 0]}
        \cup {[kind |-> "int", n |-> k] : k \in (HintMin - 1)..(HintMax + 1)}

\* variant: upper limit off by one
ValidHintLoose(h) ==
    \/ h.kind = "absent"
    \/ h.kind = "int" /\ h.n >= HintMin /\ h.n <= HintMax + 1

\* FastAPI's validation of the hint parameter
ValidHint(h) ==
    \/ h.kind = "absent"
    \/ h.kind = "int" /\ h.n >= HintMin /\ h.n <= HintMax

ParsedHint(h) == IF h.kind = "absent" THEN HintDefault ELSE h.n

\* variant: the code padded before the lookup
SectionKeyPadded(day) == ZFill(IntStr(DailyCode(day)), 3)

\* section_code = str(hash_int % 1000), the argument of ddc_db.get_section
SectionKey(day) == IntStr(DailyCode(day))

\* the section returned when the primary lookup found row r
PrimarySection(r, section_code) ==
    [r EXCEPT !.section_code = S(ZFill(section_code, 3))]

\* variant: the stored code returned without padding
FallbackSectionRaw(r) ==
    [r EXCEPT !.section_code = S(Str(r.section_code))]

\* the section returned when the fallback found row r
FallbackSection(r) ==
    [r EXCEPT !.section_code = S(ZFill(Str(r.section_code), 3))]

\* variant: the default argument of get_random_section
FallbackExcludeDefault == TRUE

\* the argument get_daily_section passes to get_random_section
FallbackExcludeUnassigned == FALSE

EmptyBody == [k \in {} |-> S(<<>>)]

Field(cond, key, value) == IF cond THEN key :> value ELSE EmptyBody

\* variant: each level adds only its own field
FormatExclusive(sd, h, date_str) ==
    ("date" :> S(date_str))
    @@ ("main_class" :> S(ZFill(Str(sd.main_class_code), 3)))
    @@ ("division" :> S(ZFill(Str(sd.division_code), 3)))
    @@ ("section" :> sd.section_code)
    @@ Field(h = 1, "main_class_description", S(sd.main_class_description))
    @@ Field(h = 2, "division_description", S(sd.division_description))
    @@ Field(h = 3, "section_masked", S(mask_letters(sd.section_description)))
    @@ Field(h = 4, "section_description", S(sd.section_description))

\* variant: the masked section disclosed one level early
FormatEarlyMask(sd, h, date_str) ==
    ("date" :> S(date_str))
    @@ ("main_class" :> S(ZFill(Str(sd.main_class_code), 3)))
    @@ ("division" :> S(ZFill(Str(sd.division_code), 3)))
    @@ ("section" :> sd.section_code)
    @@ Field(h >= 1, "main_class_description", S(sd.main_class_description))
    @@ Field(h >= 2, "division_description", S(sd.division_description))
    @@ Field(h >= 2, "section_masked", S(mask_letters(sd.section_description)))
    @@ Field(h >= 4, "section_description", S(sd.section_description))

\* the result dict of get_daily_dewey
Format(sd, h, date_str) ==
    ("date" :> S(date_str))
    @@ ("main_class" :> S(ZFill(Str(sd.main_class_code), 3)))
    @@ ("division" :> S(ZFill(Str(sd.division_code), 3)))
    @@ ("section" :> sd.section_code)
    @@ Field(h >= 1, "main_class_description", S(sd.main_class_description))
    @@ Field(h >= 2, "division_description", S(sd.division_description))
    @@ Field(h >= 3, "section_masked", S(mask_letters(sd.section_description)))
    @@ Field(h >= 4, "section_description", S(sd.section_description))

\* midnight = datetime.combine((now + timedelta(days=1)).date(), time.min)
Midnight(t) == (DateOf(t + DayTicks)) * DayTicks

\* variant: the seconds rounded up
SecondsUntilCeil(midnight, t) == (midnight - t + TicksPerSec - 1) \div TicksPerSec

\* int((midnight - now).total_seconds())
SecondsUntil(midnight, t) == (midnight - t) \div TicksPerSec

CachePrefix == <<"p","u","b","l","i","c",","," ","m","a","x","-","a","g","e","=">>
CacheSuffix == <<","," ","i","m","m","u","t","a","b","l","e">>

\* f"public, max-age={seconds_until_midnight}, immutable"
CacheControl(seconds) == CachePrefix \o IntStr(seconds) \o CacheSuffix

DayNames == << <<"M","o","n">>, <<"T","u","e">>, <<"W","e","d">>, <<"T","h","u">>,
               <<"F","r","i">>, <<"S","a","t">>, <<"S","u","n">> >>

MonthNames == << <<"J","a","n">>, <<"F","e","b">>, <<"M","a","r">>, <<"A","p","r">>,
                 <<"M","a","y">>, <<"J","u","n">>, <<"J","u","l">>, <<"A","u","g">>,
                 <<"S","e","p">>, <<"O","c","t">>, <<"N","o","v">>, <<"D","e","c">> >>

\* strftime("%a, %d %b %Y %H:%M:%S GMT") of the instant t
Strftime(t) ==
    LET day  == DateOf(t)
        secs == (t % DayTicks) \div TicksPerSec
    IN  DayNames[((Epoch.weekday + day) % 7) + 1] \o <<",", " ">>
        \o ZFill(IntStr(Epoch.d + day), 2) \o <<" ">>
        \o MonthNames[Epoch.m] \o <<" ">>
        \o ZFill(IntStr(Epoch.y), 4) \o <<" ">>
        \o ZFill(IntStr(secs \div 3600), 2) \o <<":">>
        \o ZFill(IntStr((secs \div 60) % 60), 2) \o <<":">>
        \o ZFill(IntStr(secs % 60), 2) \o <<" ", "G", "M", "T">>

EmptyHeaders == [k \in {} |-> <<>>]

CacheHeaders(t) ==
    ("Cache-Control" :> CacheControl(SecondsUntil(Midnight(t), t)))
    @@ ("Expires" :> Strftime(Midnight(t)))
    @@ ("X-Content-Type-Options" :> <<"n","o","s","n","i","f","f">>)
    @@ ("Vary" :> <<"h","i","n","t">>)

----------------------------------------------------------------------------
(* The state machine *)

\* instants of a day the clock is observed at
Offsets == {0, 1, DayTicks - TicksPerSec, DayTicks - 1}

TimePoints == {d * DayTicks + o : d \in 0..MaxDay, o \in Offsets}

Stores == {[rows |-> {Row(n, style) : n \in codes},
            aff  |-> IF style = "int" THEN "INTEGER" ELSE "TEXT"] :
              codes \in SUBSET CandidateCodes, style \in StorageStyles}

Init ==
    /\ \E st \in Stores : store = st.rows /\ affinity = st.aff
    /\ now = 0
    /\ pc = "idle"
    /\ rawHint = [kind |-> "absent", n |-> 0]
    /\ hint = 0
    /\ lookupKey = <<>>
    /\ selDay = -1
    /\ path = "none"
    /\ row = <<>>
    /\ section_data = <<>>
    /\ result = EmptyBody
    /\ headers = EmptyHeaders
    /\ status = 0
    /\ lookups = 0
    /\ dateDay = -1
    /\ reqTime = -1
    /\ prev = <<>>

\* the UTC day on which the whole request was handled, -1 if it spanned days
HandledDay == IF selDay = dateDay /\ dateDay = DateOf(reqTime) THEN selDay ELSE -1

Summary == [hint |-> hint, day |-> HandledDay, body |-> result]

\* the clock advances
Tick ==
    /\ \E t \in TimePoints : t > now /\ now' = t
    /\ UNCHANGED <<store, affinity, pc, rawHint, hint, lookupKey, selDay, path,
                   row, section_data, result, headers, status, lookups,
                   dateDay, reqTime, prev>>

\* a GET /daily request arrives and FastAPI validates its hint parameter;
\* with keep, the response just completed is remembered in prev
Receive(h, keep) ==
    /\ pc \in {"idle", "done"}
    /\ prev' = IF keep /\ pc = "done" /\ status = 200 THEN <<Summary>> ELSE <<>>
    /\ rawHint' = h
    /\ lookupKey' = <<>>
    /\ selDay' = -1
    /\ path' = "none"
    /\ row' = <<>>
    /\ section_data' = <<>>
    /\ result' = EmptyBody
    /\ headers' = EmptyHeaders
    /\ lookups' = 0
    /\ dateDay' = -1
    /\ reqTime' = -1
    /\ IF ValidHint(h)
       THEN hint' = ParsedHint(h) /\ status' = 0 /\ pc' = "select"
       ELSE hint' = 0 /\ status' = 422 /\ pc' = "done"
    /\ UNCHANGED <<store, affinity, now>>

\* get_daily_section(): the primary lookup finds a row
SelectPrimary ==
    /\ pc = "select"
    /\ LET section_code == SectionKey(DateOf(now))
       IN  /\ \E r \in get_section(section_code) :
                /\ row' = <<r>>
                /\ section_data' = PrimarySection(r, section_code)
           /\ lookupKey' = <<section_code>>
    /\ selDay' = DateOf(now)
    /\ path' = "primary"
    /\ lookups' = lookups + 1
    /\ pc' = "build"
    /\ UNCHANGED <<store, affinity, now, rawHint, hint, result, headers,
                   status, dateDay, reqTime, prev>>

\* get_daily_section(): the primary lookup misses, the fallback finds a row
SelectFallback ==
    /\ pc = "select"
    /\ LET section_code == SectionKey(DateOf(now))
       IN  /\ get_section(section_code) = {}
           /\ lookupKey' = <<section_code>>
    /\ \E r \in get_random_section(FallbackExcludeUnassigned) :
            /\ row' = <<r>>
            /\ section_data' = FallbackSection(r)
    /\ selDay' = DateOf(now)
    /\ path' = "fallback"
    /\ lookups' = lookups + 2
    /\ pc' = "build"
    /\ UNCHANGED <<store, affinity, now, rawHint, hint, result, headers,
                   status, dateDay, reqTime, prev>>

\* get_daily_section(): both lookups yield nothing, "No Section Found!"
SelectFail ==
    /\ pc = "select"
    /\ LET section_code == SectionKey(DateOf(now))
       IN  /\ get_section(section_code) = {}
           /\ lookupKey' = <<section_code>>
    /\ get_random_section(FallbackExcludeUnassigned) = {}
    /\ selDay' = DateOf(now)
    /\ lookups' = lookups + 2
    /\ status' = 500
    /\ pc' = "done"
    /\ UNCHANGED <<store, affinity, now, rawHint, hint, path, row, section_data,
                   result, headers, dateDay, reqTime, prev>>

\* get_daily_dewey builds the result dict
BuildResult ==
    /\ pc = "build"
    /\ dateDay' = DateOf(now)
    /\ result' = Format(section_data, hint, IsoFormat(DateOf(now)))
    /\ pc' = "headers"
    /\ UNCHANGED <<store, affinity, now, rawHint, hint, lookupKey, selDay, path,
                   row, section_data, headers, status, lookups, reqTime, prev>>

\* get_daily_dewey sets the caching headers and returns
SetCacheHeaders ==
    /\ pc = "headers"
    /\ reqTime' = now
    /\ headers' = CacheHeaders(now)
    /\ status' = 200
    /\ pc' = "done"
    /\ UNCHANGED <<store, affinity, now, rawHint, hint, lookupKey, selDay, path,
                   row, section_data, result, lookups, dateDay, prev>>

Next ==
    \/ Tick
    \/ \E h \in RawHints : Receive(h, FALSE)
    \/ SelectPrimary
    \/ SelectFallback
    \/ SelectFail
    \/ BuildResult
    \/ SetCacheHeaders

Spec == Init /\ [][Next]_vars

\* the same machine, remembering the previous response of the server
NextHistory ==
    \/ Tick
    \/ \E h \in RawHints : Receive(h, TRUE)
    \/ SelectPrimary
    \/ SelectFallback
    \/ SelectFail
    \/ BuildResult
    \/ SetCacheHeaders

SpecHistory == Init /\ [][NextHistory]_vars

TypeOK ==
    /\ pc \in {"idle", "select", "build", "headers", "done"}
    /\ status \in {0, 200, 422, 500}
    /\ now \in TimePoints

----------------------------------------------------------------------------
(* Properties *)

Served == pc = "done" /\ status = 200

C2_SameDateSameBody ==
    (/\ Served
     /\ prev # <<>>
     /\ prev[1].hint = hint
     /\ prev[1].day # -1
     /\ prev[1].day = HandledDay)
        => prev[1].body = result

SubBody(a, b) == DOMAIN a \subseteq DOMAIN b /\ \A k \in DOMAIN a : a[k] = b[k]

\* C3: for the record in hand and every pair of hint levels i < j, the
\* response at level i is contained, keys and values, in the response at
\* level j; in particular the response actually built lies between the
\* responses of the lower and of the higher levels.
C3_Cumulative ==
    pc \in {"headers", "done"} /\ section_data # <<>> =>
        LET d == IsoFormat(dateDay)
        IN  /\ \A i, j \in HintMin..HintMax :
                  i < j => SubBody(Format(section_data, i, d), Format(section_data, j, d))
            /\ \A i \in HintMin..HintMax :
                  /\ i < hint => SubBody(Format(section_data, i, d), result)
                  /\ i > hint => SubBody(result, Format(section_data, i, d))

C3_Witness == Served /\ hint = 2 /\ path = "primary"

BaseKeys == {"date", "main_class", "division", "section"}

DisclosureKeys == <<"main_class_description", "division_description",
                    "section_masked", "section_description">>

\* C4: a response at hint level h has exactly the four base keys and the
\* first h disclosure keys.
C4_ExactKeys ==
    Served =>
        /\ DOMAIN result = BaseKeys \cup {DisclosureKeys[k] : k \in 1..hint}
        /\ hint = 2 => Cardinality(DOMAIN result) = 6
        /\ "section_description" \in DOMAIN result <=> hint = 4

C4_Witness ==
    /\ Served
    /\ hint = 2
    /\ DOMAIN result = {"date", "main_class", "division", "section",
                        "main_class_description", "division_description"}

\* C5: a hint that is not an integer in 0..4 is answered 422 with no store
\* query and no body built; an absent hint (taken as 0) or one in 0..4 is
\* never answered 422 and its request queries the store.
C5_Validation ==
    pc # "idle" =>
        IF rawHint.kind = "absent" \/ (rawHint.kind = "int" /\ rawHint.n \in 0..4)
        THEN /\ status # 422
             /\ hint = (IF rawHint.kind = "absent" THEN 0 ELSE rawHint.n)
             /\ pc \in {"build", "headers", "done"} => lookups >= 1
        ELSE /\ pc = "done"
             /\ status = 422
             /\ lookups = 0
             /\ lookupKey = <<>>
             /\ section_data = <<>>
             /\ DOMAIN result = {}

C5_Witness == pc = "done" /\ status = 422 /\ rawHint = [kind |-> "int", n |-> 5]

\* the max-age value of a Cache-Control header, -1 if it has none
MaxAgeOf(h) ==
    LET lo == Len(CachePrefix) + 1
        hi == Len(h) - Len(CacheSuffix)
    IN  IF /\ hi >= lo
           /\ SubSeq(h, 1, lo - 1) = CachePrefix
           /\ SubSeq(h, hi + 1, Len(h)) = CacheSuffix
           /\ IsDigitStr(SubSeq(h, lo, hi))
        THEN ParseDec(SubSeq(h, lo, hi))
        ELSE -1

\* the first midnight strictly after instant t
NextMidnight(t) ==
    CHOOSE m \in {d * DayTicks : d \in 0..(MaxDay + 2)} :
        /\ m > t
        /\ \A d \in 0..(MaxDay + 2) : d * DayTicks > t => m <= d * DayTicks

\* the Expires text of the midnight that opens the given day
ExpectedExpires(day) ==
    CASE day = 1 -> <<"S","a","t",","," ","0","7"," ","F","e","b"," ","2","0","2","6"," ","0","0",":","0","0",":","0","0"," ","G","M","T">>
      [] day = 2 -> <<"S","u","n",","," ","0","8"," ","F","e","b"," ","2","0","2","6"," ","0","0",":","0","0",":","0","0"," ","G","M","T">>
      [] day = 3 -> <<"M","o","n",","," ","0","9"," ","F","e","b"," ","2","0","2","6"," ","0","0",":","0","0",":","0","0"," ","G","M","T">>
      [] day = 4 -> <<"T","u","e",","," ","1","0"," ","F","e","b"," ","2","0","2","6"," ","0","0",":","0","0",":","0","0"," ","G","M","T">>
      [] day = 5 -> <<"W","e","d",","," ","1","1"," ","F","e","b"," ","2","0","2","6"," ","0","0",":","0","0",":","0","0"," ","G","M","T">>

\* C6: max-age is the number of whole seconds from the instant read for the
\* headers to the next UTC midnight strictly after it, Expires names that
\* midnight, and max-age lies in 0..86400.
C6_CacheHeaders ==
    Served =>
        LET age == MaxAgeOf(headers["Cache-Control"])
            gap == NextMidnight(reqTime) - reqTime
        IN  /\ age \in 0..86400
            /\ age * TicksPerSec <= gap
            /\ gap < (age + 1) * TicksPerSec
            /\ headers["Expires"] = ExpectedExpires(NextMidnight(reqTime) \div DayTicks)

C6_Witness ==
    /\ Served
    /\ reqTime % DayTicks = DayTicks - 1
    /\ MaxAgeOf(headers["Cache-Control"]) = 0

\* the 3-character text of a stored code
Padded3(v) == ZFill(IF v.t = "int" THEN IntStr(v.n) ELSE v.s, 3)

\* C7: when the primary lookup misses and the store is not empty, the request
\* does not fail, the section comes from a row of the store (unassigned rows
\* included), and the response carries that row's padded codes and its
\* descriptions.
C7_Fallback ==
    (pc # "select" /\ lookupKey # <<>> /\ get_section(lookupKey[1]) = {} /\ store # {}) =>
        /\ path = "fallback"
        /\ status # 500
        /\ lookups = 2
        /\ row[1] \in store
        /\ Served =>
             /\ result["section"] = S(Padded3(row[1].section_code))
             /\ Len(result["section"].s) = 3
             /\ result["division"] = S(Padded3(row[1].division_code))
             /\ result["main_class"] = S(Padded3(row[1].main_class_code))
             /\ hint >= 1 => result["main_class_description"].s = row[1].main_class_description
             /\ hint >= 2 => result["division_description"].s = row[1].division_description
             /\ hint >= 4 => result["section_description"].s = row[1].section_description

C7_Witness ==
    /\ Served
    /\ path = "fallback"
    /\ hint = 4
    /\ result["section"] = S(<<"0", "0", "7">>)
    /\ result["section_description"] = S(Unassigned)

MaskChars == {"a", "Z", "7", " ", "_", "é"}

MaxMaskLen == 3

MaskInputs == UNION {[1..n -> MaskChars] : n \in 0..MaxMaskLen}

MaskedOK(s, m) ==
    /\ Len(m) = Len(s)
    /\ \A p \in 1..Len(s) :
          m[p] = IF \E i \in 1..26 : s[p] = Lower[i] \/ s[p] = Upper[i] THEN "_" ELSE s[p]

C9_ZeroPadding ==
    Served =>
        /\ \A k \in {"main_class", "division", "section"} :
              /\ result[k].t = "str"
              /\ Len(result[k].s) = 3
              /\ IsDigitStr(result[k].s)
        /\ result["section"].s = Padded3(row[1].section_code)
        /\ result["division"].s = Padded3(row[1].division_code)
        /\ result["main_class"].s = Padded3(row[1].main_class_code)

C9_Witness ==
    /\ Served
    /\ path = "fallback"
    /\ row[1].section_code = S(<<"7">>)
    /\ result["section"] = S(<<"0", "0", "7">>)
    /\ result["division"] = S(<<"0", "0", "0">>)

\* C10: in a response whose primary lookup hit, the date field is the date
\* that selected the section and the cache lifetime ends at the midnight
\* closing that date, however the clock moves during the handling.
C10_DateConsistency ==
    Served /\ path = "primary" =>
        /\ result["date"] = S(IsoFormat(selDay))
        /\ headers["Expires"] = ExpectedExpires(selDay + 1)
        /\ DateOf(reqTime) = selDay

====
